---- MODULE Spec2Model ----
\* Model of the HashEngine native hash service (hashengine/src/bin/server.rs):
\* the global ROM slot (RwLock<Option<Arc<Rom>>>), the HTTP handlers that read
\* and replace it, the rayon fan-out of /hash-batch, and the worker-count
\* recommendation of /update-mining-workers.
EXTENDS Integers, Sequences, FiniteSets, TLC

\* ------------------------------------------------------------------ bounds
MaxRequests == 2         \* requests other than /init admitted in one behaviour
MaxRoms == 2             \* /init requests admitted in one behaviour
MaxBatch == 2            \* longest preimages array
MaxClients == 120        \* largest mining_worker_count submitted (planner runs)
MaxCpu == 12             \* largest num_cpus::get() (planner runs)
MaxTop == 12             \* how many of the largest usize values are submitted
MaxCalls == 4            \* calls of the library binding in one behaviour

\* The request-handling threads that run handlers concurrently.
Threads == {1, 2}
\* POST /hash bodies.
Preimages == {"pa"}
ServerCpus == {8}
ServerClients == {60}

\* ------------------------------------------------------------------ values
\* Option<T>: None is the empty sequence, Some(x) the one-element sequence.
None == <<>>
Some(x) == <<x>>
is_some(o) == o # None
unwrap(o) == o[1]

\* POST /init bodies: no_pre_mine and the AshConfig fields Rom::new consumes.
InitRequests ==
    { [no_pre_mine |-> "seedA", pre_size |-> 16, rom_size |-> 64, mixing_numbers |-> 4],
      [no_pre_mine |-> "seedB", pre_size |-> 32, rom_size |-> 128, mixing_numbers |-> 2] }

\* POST /hash-batch bodies: the prefixes, the empty one included, of an array
\* of pairwise different preimages.
BatchWord == [i \in 1..MaxBatch |-> <<"pa", "pb", "pc", "pd">>[i]]
BatchRequests == {SubSeq(BatchWord, 1, k) : k \in 0..MaxBatch}

\* serde_json::Value, as far as /hash-batch-shared looks at it: the variant, the
\* text of a scalar and the elements of an array.
JsonString(str) == [variant |-> "String", text |-> str, elements |-> <<>>]
JsonNumber(digits) == [variant |-> "Number", text |-> digits, elements |-> <<>>]
JsonArray(arr) == [variant |-> "Array", text |-> "", elements |-> arr]
\* Value::as_str
as_str(v) == IF v.variant = "String" THEN Some(v.text) ELSE None

\* POST /hash-batch-shared bodies, by their "preimages" member: none, a string
\* in place of the array, the empty array and an array whose second element
\* is a number.
SharedWord ==
    [i \in 1..MaxBatch |->
        <<JsonString("pa"), JsonNumber("7"), JsonString("pc"), JsonString("pd")>>[i]]
SharedRequests ==
    {None, Some(JsonString("pa")), Some(JsonArray(<<>>)), Some(JsonArray(SharedWord))}

\* Rom::new(key, TwoStep{pre_size, mixing_numbers}, size): a pure function of
\* its arguments; the dataset is represented by the arguments that determine it.
RomNew(key, pre_size, mixing_numbers, size) ==
    [key |-> key, pre_size |-> pre_size, mixing_numbers |-> mixing_numbers, size |-> size]

\* What a read through a dangling Arc<Rom> may yield.
Garbage == [key |-> "freed", pre_size |-> 0, mixing_numbers |-> 0, size |-> 0]

\* hashengine::hash(salt, rom, nb_loops, nb_instrs): a pure function of its
\* arguments, represented by them.
sh_hash(salt, rom, nb_loops, nb_instrs) ==
    [salt |-> salt, rom |-> rom, nb_loops |-> nb_loops, nb_instrs |-> nb_instrs]

\* hex::encode: an injective rendering of the digest bytes.
hex_encode(bytes) == [hex |-> bytes]

min(a, b) == IF a <= b THEN a ELSE b
max(a, b) == IF a >= b THEN a ELSE b

\* ------------------------------------------------------------------ responses
NoResponse == [status |-> 0, kind |-> "none", hashes |-> <<>>, flag |-> FALSE, a |-> 0, b |-> 0]
ErrorResponse(status, kind) ==
    [status |-> status, kind |-> kind, hashes |-> <<>>, flag |-> FALSE, a |-> 0, b |-> 0]
\* (mutant) the not-initialized branch answers 400 like the empty-batch branch
NotReadyAsBadRequest == ErrorResponse(400, "ROM not initialized. Call /init first.")
NotReady == ErrorResponse(503, "ROM not initialized. Call /init first.")
InvalidInput == ErrorResponse(400, "preimages array is required")
\* a handler that panicked: the request ends without a response body
Panicked == ErrorResponse(500, "panic")
InitResponse == [status |-> 200, kind |-> "initialized", hashes |-> <<>>, flag |-> FALSE, a |-> 0, b |-> 0]
HashResponse(h) == [status |-> 200, kind |-> "hash", hashes |-> <<h>>, flag |-> FALSE, a |-> 0, b |-> 0]
BatchHashResponse(hs) == [status |-> 200, kind |-> "hashes", hashes |-> hs, flag |-> FALSE, a |-> 0, b |-> 0]
HealthResponse(rom_initialized) ==
    [status |-> 200, kind |-> "health", hashes |-> <<>>, flag |-> rom_initialized, a |-> 0, b |-> 0]
UpdateMiningWorkersResponse(current, recommended) ==
    [status |-> 200, kind |-> "updated", hashes |-> <<>>, flag |-> FALSE, a |-> current, b |-> recommended]

\* ------------------------------------------------------------------ state
VARIABLES
    ROM,                  \* the slot: Option of an Arc, an index into heap
    heap,                 \* Arc allocations: [rom, strong, freed], in allocation order
    readers,              \* threads holding a read guard of ROM
    writer,               \* thread holding the write guard of ROM, 0 if none
    poisoned,             \* the RwLock's poison flag
    MINING_WORKER_COUNT,  \* Option<usize>
    cpu_count,            \* num_cpus::get()
    handler,              \* per thread: the running handler's position and locals
    nreq,                 \* requests other than /init admitted so far
    hist,                 \* history: publish order, acknowledgements, /init count
    done,                 \* the request that has just returned, with its response
    workers,              \* main: Option of the count handed to HttpServer::workers
    num_threads,          \* main: Option of the size of the rayon pool
    used_mining_count,    \* main: Option<usize>, the mining worker count it used
    ROM_STATE,            \* lib.rs: Option<Rom>
    ROM_READY,            \* lib.rs: bool
    mutex,                \* lib.rs: the owner (0 if free) of each of the two Mutexes
    call,                 \* lib.rs: per thread, the running binding call
    returned,             \* lib.rs: the call that has just returned, with its result
    libhist               \* lib.rs history: calls made, whether rom_ready() has said true

\* what main sets once before the server runs
startup == <<workers, num_threads, used_mining_count>>
\* the state of the library binding
lib == <<ROM_STATE, ROM_READY, mutex, call, returned, libhist>>

vars == <<ROM, heap, readers, writer, poisoned, MINING_WORKER_COUNT, cpu_count,
          handler, nreq, hist, done, startup, lib>>

NoRequest ==
    [op |-> "none", preimages |-> <<>>, init |-> None, mining_worker_count |-> 0, json |-> None]
InitRequest(body) == [NoRequest EXCEPT !.op = "init", !.init = Some(body)]
HashRequest(preimage) == [NoRequest EXCEPT !.op = "hash", !.preimages = <<preimage>>]
BatchHashRequest(preimages) == [NoRequest EXCEPT !.op = "hash-batch", !.preimages = preimages]
HealthRequest == [NoRequest EXCEPT !.op = "health"]
UpdateMiningWorkersRequest(c) ==
    [NoRequest EXCEPT !.op = "update-mining-workers", !.mining_worker_count = c]
\* POST /hash-batch-shared takes any JSON object: json is req.get("preimages")
SharedRequest(v) == [NoRequest EXCEPT !.op = "hash-batch-shared", !.json = v]

\* What is remembered about a request while it runs:
\*   ackAtStart  the latest publish, by position in hist.published, whose /init
\*               had returned when the request was admitted (0 if none; kept
\*               for /hash and /hash-batch)
\*   arc         the Arc it cloned from the slot, or built (for /init)
NoObs == [ackAtStart |-> 0, arc |-> None]

\* A thread's handler state: pc, the request, and the locals rom (the cloned
\* or built Arc), hashes (the output cells of collect(), Option each),
\* rom_initialized (health_handler) and preimages (hash_batch_shared_handler).
Idle == [pc |-> "idle", req |-> NoRequest, rom |-> None, hashes |-> <<>>,
         rom_initialized |-> FALSE, preimages |-> <<>>, obs |-> NoObs]

NoneDone == [req |-> NoRequest, resp |-> NoResponse, obs |-> NoObs]

\* ------------------------------------------------------------------ f64 products
\* The largest power of two strictly below q (q >= 2).
RECURSIVE Pow2Below(_, _)
Pow2Below(q, p) == IF 2 * p < q THEN Pow2Below(q, 2 * p) ELSE p

\* (c as f64 * K) as usize for the f64 nearest to num/den, which is
\* (num * 2^52 - short) / (den * 2^52): 1.5 is exact (short = 0) and 1.2 is
\* one part in 5 * 2^52 short of 6/5. The exact product is
\* c*num/den - c*short/(den * 2^52); it is rounded to 53 significant bits and
\* then truncated. A product that is not a whole number keeps its integer
\* part; a whole number q minus the shortfall rounds back up to q when the
\* shortfall is at most half a unit in the last place of the binade below q,
\* 2^(j-53) with 2^j = Pow2Below(q, 1), and falls to q - 1 otherwise.
MulF64AsUsize(c, num, den, short) ==
    LET q == (c * num) \div den
        r == (c * num) % den
    IN IF r # 0 \/ short = 0 \/ q < 2 THEN q
       ELSE IF 2 * c * short <= den * Pow2Below(q, 1) THEN q
       ELSE q - 1

\* ------------------------------------------------------------------ main
\* The values of environment variables are strings, written as sequences of
\* characters.
Digits == <<"0", "1", "2", "3", "4", "5", "6", "7", "8", "9">>
\* the decimal numeral of n, as the orchestrator writes it into the environment
RECURSIVE Decimal(_)
Decimal(n) ==
    IF n < 10 THEN <<Digits[n + 1]>>
    ELSE Append(Decimal(n \div 10), Digits[(n % 10) + 1])

IsDigit(ch) == \E d \in 1..10 : Digits[d] = ch
DigitValue(ch) == (CHOOSE d \in 1..10 : Digits[d] = ch) - 1
RECURSIVE DigitsValue(_)
DigitsValue(s) ==
    IF s = <<>> THEN 0
    ELSE 10 * DigitsValue(SubSeq(s, 1, Len(s) - 1)) + DigitValue(s[Len(s)])

\* str::parse::<usize>().ok(): an optional "+" and then one or more decimal
\* digits; anything else is an error (the numerals used here are far below
\* usize::MAX).
parse_usize(s) ==
    LET ds == IF s # <<>> /\ s[1] = "+" THEN Tail(s) ELSE s
    IN IF ds = <<>> \/ \E i \in 1..Len(ds) : ~IsDigit(ds[i])
         THEN None
         ELSE Some(DigitsValue(ds))

\* std::env::var(..).ok() of the two variables main reads: unset, or a string.
EnvMiningWorkerCounts ==
    {None, Some(<<>>), Some(<<"x">>)} \cup {Some(Decimal(n)) : n \in 0..MaxClients}
EnvWorkers == {None, Some(<<"3">>), Some(<<"+", "1", "6">>), Some(<<"a", "l", "l">>)}
Envs == [MINING_WORKER_COUNT : EnvMiningWorkerCounts, WORKERS : EnvWorkers]
\* the environment of the server whose requests are explored
ServerEnvs == {[MINING_WORKER_COUNT |-> Some(<<"1">>), WORKERS |-> None]}

\* let mining_worker_count = env::var("MINING_WORKER_COUNT").ok().and_then(parse)
mining_worker_count(e) ==
    IF is_some(e.MINING_WORKER_COUNT) THEN parse_usize(unwrap(e.MINING_WORKER_COUNT)) ELSE None

\* let calculated = ... : the tiers of main
calculated(mining_workers) ==
    IF mining_workers < 20 THEN mining_workers * 2
    ELSE IF mining_workers < 50 THEN MulF64AsUsize(mining_workers, 3, 2, 0)
    ELSE IF mining_workers < 100 THEN MulF64AsUsize(mining_workers, 6, 5, 1)
    ELSE mining_workers + 10

\* let optimal = min(cpu_count, max(calculated, 4))
optimal(mining_workers, cpus) == min(cpus, max(calculated(mining_workers), 4))

\* env::var("WORKERS").map(|w| w.parse().unwrap_or(cpu_count)).unwrap_or(cpu_count)
workers_from_env(e, cpus) ==
    IF is_some(e.WORKERS) /\ is_some(parse_usize(unwrap(e.WORKERS)))
      THEN unwrap(parse_usize(unwrap(e.WORKERS)))
      ELSE cpus

\* let (workers, used_mining_count) = ...
main_workers(e, cpus) ==
    IF is_some(mining_worker_count(e))
      THEN optimal(unwrap(mining_worker_count(e)), cpus)
      ELSE workers_from_env(e, cpus)
main_used_mining_count(e) == mining_worker_count(e)

\* The server as main has started it in environment e: HttpServer with
\* .workers(workers), the rayon pool with num_threads = cpu_count.
Started(e) ==
    /\ workers = Some(main_workers(e, cpu_count))
    /\ num_threads = Some(cpu_count)
    /\ used_mining_count = main_used_mining_count(e)

\* main, from its first line to HttpServer::run
main(e) ==
    /\ workers = None
    /\ workers' = Some(main_workers(e, cpu_count))
    /\ num_threads' = Some(cpu_count)
    /\ used_mining_count' = main_used_mining_count(e)
    /\ UNCHANGED <<ROM, heap, readers, writer, poisoned, MINING_WORKER_COUNT, cpu_count,
                   handler, nreq, hist, done, lib>>

\* ------------------------------------------------------------------ initial states
\* The library binding before any call: both statics as declared, both
\* Mutexes free, no call running.
\* A thread's call: pc, the function, its arguments, the local rom of init_rom,
\* and (history) whether rom_ready() had returned true when the call was made.
NoCall == [pc |-> "idle", op |-> "none", init |-> None, preimage |-> "", rom |-> None,
           after_ready |-> FALSE]
\* Results: Ok(()), Ok(String), a bool, Err(reason).
OkUnit == [ok |-> TRUE, reason |-> "", hash |-> None, ready |-> FALSE]
OkHash(h) == [ok |-> TRUE, reason |-> "", hash |-> Some(h), ready |-> FALSE]
Bool(b) == [ok |-> TRUE, reason |-> "", hash |-> None, ready |-> b]
Err(reason) == [ok |-> FALSE, reason |-> reason, hash |-> None, ready |-> FALSE]
\* The call that returned, its result and its history.
NoReturn == [op |-> "none", result |-> Err(""), after_ready |-> FALSE]
LibInit ==
    /\ ROM_STATE = None
    /\ ROM_READY = FALSE
    /\ mutex = [ROM_STATE |-> 0, ROM_READY |-> 0]
    /\ call = [t \in Threads |-> NoCall]
    /\ returned = NoReturn
    /\ libhist = [calls |-> 0, ready_reported |-> FALSE]

\* hist.published: heap indices in the order they were stored in the slot
\* hist.acked: the latest position in hist.published whose /init has returned
\* hist.inits: /init requests admitted
Init ==
    /\ ROM = None
    /\ heap = <<>>
    /\ readers = {}
    /\ writer = 0
    /\ poisoned = FALSE
    /\ MINING_WORKER_COUNT = None
    /\ cpu_count \in ServerCpus
    /\ handler = [t \in Threads |-> Idle]
    /\ nreq = 0
    /\ hist = [published |-> <<>>, acked |-> 0, inits |-> 0]
    /\ done = NoneDone
    /\ \E e \in ServerEnvs : Started(e)
    /\ LibInit

\* ------------------------------------------------------------------ Arc and RwLock
\* Arc::new: a fresh allocation with strong count 1.
ArcNew(h, r) == Append(h, [rom |-> r, strong |-> 1, freed |-> FALSE])
\* (mutant) the reference is copied without counting it
ArcCloneUncounted(h, i) == h

\* Arc::clone: one more strong reference.
ArcClone(h, i) == [h EXCEPT ![i] = [@ EXCEPT !.strong = @ + 1]]
\* Drop of an Arc: one reference fewer; the last one releases the dataset.
ArcDrop(h, i) ==
    [h EXCEPT ![i] = [@ EXCEPT !.strong = @ - 1, !.freed = (h[i].freed \/ h[i].strong = 1)]]
\* Drop of an Option<Arc<Rom>>.
DropOption(h, o) == IF is_some(o) THEN ArcDrop(h, unwrap(o)) ELSE h
\* Dereference of an Arc<Rom>.
Deref(h, i) == IF h[i].freed THEN Garbage ELSE h[i].rom

\* (mutant) try_read().unwrap(): a write guard that is out is an error
TryReadOutcome(w, p) == IF w # 0 \/ p THEN "panic" ELSE "guard"

\* ROM.read().unwrap() with write guard holder w (0 if none) and poison flag p:
\* the call waits while a write guard is out, panics on a poisoned lock and
\* otherwise returns a read guard.
ReadOutcome(w, p) == IF w # 0 THEN "wait" ELSE IF p THEN "panic" ELSE "guard"
\* RwLock::write returns when no guard is out.
CanWrite == writer = 0 /\ readers = {}
\* (mutant) the read guard is leaked instead of dropped
KeepReadGuard(rs, t) == rs

\* Drop of a read guard.
DropReadGuard(rs, t) == rs \ {t}

\* The position of Arc i in the publish order (0 if it was never stored).
PubPos(i) ==
    IF \E k \in 1..Len(hist.published) : hist.published[k] = i
      THEN CHOOSE k \in 1..Len(hist.published) : hist.published[k] = i
      ELSE 0

\* Once main has started the server, a request is handed to a free thread
\* (the lowest-numbered one: threads are interchangeable) and its handler is
\* entered at position start.
Admissible(t) ==
    /\ is_some(workers)
    /\ handler[t].pc = "idle"
    /\ \A u \in Threads : u < t => handler[u].pc # "idle"

Admit(t, r, start) ==
    /\ Admissible(t)
    /\ handler' = [handler EXCEPT ![t] =
                     [Idle EXCEPT !.pc = start, !.req = r,
                                  !.obs = [NoObs EXCEPT !.ackAtStart =
                                             IF r.op \in {"hash", "hash-batch"}
                                               THEN hist.acked ELSE 0]]]

\* The response that went out last has been delivered; done shows a response
\* only in the state its handler returned in.
Delivered == done' = NoneDone

\* A thread moves to position next of its handler.
Goto(t, next) == handler' = [handler EXCEPT ![t].pc = next]

\* A handler returns: the response goes out, the locals are gone and the
\* thread is free again.
Return(t, r) ==
    /\ handler' = [handler EXCEPT ![t] = Idle]
    /\ done' = [req |-> handler[t].req, resp |-> r, obs |-> handler[t].obs]

\* ------------------------------------------------------------------ POST /init
init_request(t, body) ==
    /\ hist.inits < MaxRoms
    /\ Admit(t, InitRequest(body), "init_read")
    /\ hist' = [hist EXCEPT !.inits = @ + 1]
    /\ UNCHANGED <<ROM, heap, readers, writer, poisoned, MINING_WORKER_COUNT, cpu_count, startup, lib,
                   nreq>>
    /\ Delivered

\* ROM.read().unwrap() of the already-initialized check
init_read(t) ==
    /\ handler[t].pc = "init_read"
    /\ ReadOutcome(writer, poisoned) # "wait"
    /\ IF ReadOutcome(writer, poisoned) = "panic"
         THEN Return(t, Panicked) /\ UNCHANGED readers
         ELSE /\ readers' = readers \cup {t}
              /\ Goto(t, "init_check")
              /\ Delivered
    /\ UNCHANGED <<ROM, heap, writer, poisoned, MINING_WORKER_COUNT, cpu_count, startup, lib, nreq, hist>>

\* (mutant) the old dataset is released before the new one is built
SlotCleared(slot) == None

\* What the already-initialized check leaves in the slot: it holds a read
\* guard and only logs, so the slot keeps its value while the dataset is built.
SlotDuringInit(slot) == slot

\* (mutant) the check ends by taking the write guard, before the dataset is built
init_check_then_write(t) ==
    /\ handler[t].pc = "init_check"
    /\ writer = 0 /\ readers \subseteq {t}
    /\ readers' = DropReadGuard(readers, t)
    /\ writer' = t
    /\ Goto(t, "init_build")
    /\ UNCHANGED <<ROM, heap, poisoned, MINING_WORKER_COUNT, cpu_count, startup, lib, nreq,
                   hist>>
    /\ Delivered

\* rom_lock.is_some() only logs; the block ends and the read guard is dropped
init_check(t) ==
    /\ handler[t].pc = "init_check"
    /\ ROM' = SlotDuringInit(ROM)
    /\ readers' = DropReadGuard(readers, t)
    /\ Goto(t, "init_build")
    /\ UNCHANGED <<heap, writer, poisoned, MINING_WORKER_COUNT, cpu_count, startup, lib, nreq, hist>>
    /\ Delivered

\* Rom::new returns and Arc::new wraps the dataset
init_build(t) ==
    /\ handler[t].pc = "init_build"
    /\ LET body == unwrap(handler[t].req.init)
           r == RomNew(body.no_pre_mine, body.pre_size, body.mixing_numbers, body.rom_size)
       IN /\ heap' = ArcNew(heap, r)
          /\ handler' = [handler EXCEPT ![t].pc = "init_write",
                                        ![t].rom = Some(Len(heap) + 1),
                                        ![t].obs.arc = Some(Len(heap) + 1)]
    /\ UNCHANGED <<ROM, readers, writer, poisoned, MINING_WORKER_COUNT, cpu_count, startup, lib, nreq, hist>>
    /\ Delivered

\* Rom::new panics: the handler unwinds, dropping whatever guards it holds; a
\* write guard dropped during a panic poisons the lock
init_build_fail(t) ==
    /\ handler[t].pc = "init_build"
    /\ readers' = DropReadGuard(readers, t)
    /\ writer' = IF writer = t THEN 0 ELSE writer
    /\ poisoned' = (poisoned \/ writer = t)
    /\ Return(t, Panicked)
    /\ UNCHANGED <<ROM, heap, MINING_WORKER_COUNT, cpu_count, startup, lib, nreq, hist>>

\* ROM.write().unwrap()
init_write(t) ==
    /\ handler[t].pc = "init_write"
    /\ CanWrite
    /\ IF poisoned
         THEN /\ Return(t, Panicked)
              /\ heap' = DropOption(heap, handler[t].rom)
              /\ UNCHANGED writer
         ELSE /\ writer' = t
              /\ Goto(t, "init_store")
              /\ Delivered /\ UNCHANGED heap
    /\ UNCHANGED <<ROM, readers, poisoned, MINING_WORKER_COUNT, cpu_count, startup, lib, nreq, hist>>

\* (mutant) the assignment goes to a copy and the slot keeps its value
PublishNowhere(slot, arc) == slot

\* (mutant) initialise once: a slot that holds a snapshot keeps it
PublishIfEmpty(slot, arc) == IF is_some(slot) THEN slot ELSE Some(arc)

\* *rom_lock = Some(rom_arc)
Publish(slot, arc) == Some(arc)

\* the Arc moves into the slot and the slot's old value is dropped
init_store(t) ==
    /\ handler[t].pc = "init_store"
    /\ ROM' = Publish(ROM, unwrap(handler[t].rom))
    /\ heap' = DropOption(heap, ROM)
    /\ handler' = [handler EXCEPT ![t].pc = "init_unlock", ![t].rom = None]
    /\ hist' = [hist EXCEPT !.published = Append(@, unwrap(handler[t].rom))]
    /\ UNCHANGED <<readers, writer, poisoned, MINING_WORKER_COUNT, cpu_count, startup, lib, nreq>>
    /\ Delivered

\* the block ends and the write guard is dropped
init_unlock(t) ==
    /\ handler[t].pc = "init_unlock"
    /\ writer' = 0
    /\ Goto(t, "init_respond")
    /\ UNCHANGED <<ROM, heap, readers, poisoned, MINING_WORKER_COUNT, cpu_count, startup, lib, nreq, hist>>
    /\ Delivered

\* HttpResponse::Ok().json(InitResponse{..})
init_respond(t) ==
    /\ handler[t].pc = "init_respond"
    /\ Return(t, InitResponse)
    /\ hist' = [hist EXCEPT !.acked = max(@, PubPos(unwrap(handler[t].obs.arc)))]
    /\ UNCHANGED <<ROM, heap, readers, writer, poisoned, MINING_WORKER_COUNT, cpu_count, startup, lib, nreq>>

init_handler(t) ==
    \/ \E body \in InitRequests : init_request(t, body)
    \/ init_read(t)
    \/ init_check(t)
    \/ init_build(t)
    \/ init_build_fail(t)
    \/ init_write(t)
    \/ init_store(t)
    \/ init_unlock(t)
    \/ init_respond(t)

\* ------------------------------------------------------------------ POST /hash
hash_request(t, preimage) ==
    /\ nreq < MaxRequests
    /\ nreq' = nreq + 1
    /\ Admit(t, HashRequest(preimage), "hash_read")
    /\ UNCHANGED <<ROM, heap, readers, writer, poisoned, MINING_WORKER_COUNT, cpu_count, startup, lib,
                   hist>>
    /\ Delivered

\* ROM.read().unwrap()
hash_read(t) ==
    /\ handler[t].pc = "hash_read"
    /\ ReadOutcome(writer, poisoned) # "wait"
    /\ IF ReadOutcome(writer, poisoned) = "panic"
         THEN Return(t, Panicked) /\ UNCHANGED readers
         ELSE /\ readers' = readers \cup {t}
              /\ Goto(t, "hash_match")
              /\ Delivered
    /\ UNCHANGED <<ROM, heap, writer, poisoned, MINING_WORKER_COUNT, cpu_count, startup, lib, nreq, hist>>

\* match rom_lock.as_ref(): Some clones the Arc, None returns 503 (the guard
\* is dropped by the return)
hash_match(t) ==
    /\ handler[t].pc = "hash_match"
    /\ IF is_some(ROM)
         THEN /\ handler' = [handler EXCEPT ![t].pc = "hash_drop", ![t].rom = ROM,
                                            ![t].obs.arc = ROM]
              /\ heap' = ArcClone(heap, unwrap(ROM))
              /\ Delivered /\ UNCHANGED readers
         ELSE /\ readers' = DropReadGuard(readers, t)
              /\ Return(t, NotReady)
              /\ UNCHANGED heap
    /\ UNCHANGED <<ROM, writer, poisoned, MINING_WORKER_COUNT, cpu_count, startup, lib, nreq, hist>>

\* drop(rom_lock)
hash_drop(t) ==
    /\ handler[t].pc = "hash_drop"
    /\ readers' = DropReadGuard(readers, t)
    /\ Goto(t, "hash_compute")
    /\ UNCHANGED <<ROM, heap, writer, poisoned, MINING_WORKER_COUNT, cpu_count, startup, lib, nreq, hist>>
    /\ Delivered

\* hex::encode(sh_hash(salt, &rom, 8, 256))
HashOne(h, arc, preimage) == hex_encode(sh_hash(preimage, Deref(h, arc), 8, 256))

\* the digest is computed and returned; the local Arc is dropped
hash_compute(t) ==
    /\ handler[t].pc = "hash_compute"
    /\ Return(t, HashResponse(HashOne(heap, unwrap(handler[t].rom), handler[t].req.preimages[1])))
    /\ heap' = DropOption(heap, handler[t].rom)
    /\ UNCHANGED <<ROM, readers, writer, poisoned, MINING_WORKER_COUNT, cpu_count, startup, lib, nreq, hist>>

hash_handler(t) ==
    \/ \E preimage \in Preimages : hash_request(t, preimage)
    \/ hash_read(t)
    \/ hash_match(t)
    \/ hash_drop(t)
    \/ hash_compute(t)

\* ------------------------------------------------------------------ POST /hash-batch
hash_batch_request(t, preimages) ==
    /\ nreq < MaxRequests
    /\ nreq' = nreq + 1
    /\ Admit(t, BatchHashRequest(preimages), "batch_read")
    /\ UNCHANGED <<ROM, heap, readers, writer, poisoned, MINING_WORKER_COUNT, cpu_count, startup, lib,
                   hist>>
    /\ Delivered

\* ROM.read().unwrap()
hash_batch_read(t) ==
    /\ handler[t].pc = "batch_read"
    /\ ReadOutcome(writer, poisoned) # "wait"
    /\ IF ReadOutcome(writer, poisoned) = "panic"
         THEN Return(t, Panicked) /\ UNCHANGED readers
         ELSE /\ readers' = readers \cup {t}
              /\ Goto(t, "batch_match")
              /\ Delivered
    /\ UNCHANGED <<ROM, heap, writer, poisoned, MINING_WORKER_COUNT, cpu_count, startup, lib, nreq, hist>>

\* match rom_lock.as_ref(): Some clones the Arc, None returns 503
hash_batch_match(t) ==
    /\ handler[t].pc = "batch_match"
    /\ IF is_some(ROM)
         THEN /\ handler' = [handler EXCEPT ![t].pc = "batch_drop", ![t].rom = ROM,
                                            ![t].obs.arc = ROM]
              /\ heap' = ArcClone(heap, unwrap(ROM))
              /\ Delivered /\ UNCHANGED readers
         ELSE /\ readers' = DropReadGuard(readers, t)
              /\ Return(t, NotReady)
              /\ UNCHANGED heap
    /\ UNCHANGED <<ROM, writer, poisoned, MINING_WORKER_COUNT, cpu_count, startup, lib, nreq, hist>>

\* drop(rom_lock)
hash_batch_drop(t) ==
    /\ handler[t].pc = "batch_drop"
    /\ readers' = DropReadGuard(readers, t)
    /\ Goto(t, "batch_check")
    /\ UNCHANGED <<ROM, heap, writer, poisoned, MINING_WORKER_COUNT, cpu_count, startup, lib, nreq, hist>>
    /\ Delivered

\* if req.preimages.is_empty() return 400, else start the parallel map with
\* one empty output cell per input position
hash_batch_check(t) ==
    /\ handler[t].pc = "batch_check"
    /\ IF handler[t].req.preimages = <<>>
         THEN /\ Return(t, InvalidInput)
              /\ heap' = DropOption(heap, handler[t].rom)
         ELSE /\ handler' = [handler EXCEPT
                               ![t].pc = "batch_par",
                               ![t].hashes = [i \in 1..Len(handler[t].req.preimages) |-> None]]
              /\ Delivered /\ UNCHANGED heap
    /\ UNCHANGED <<ROM, readers, writer, poisoned, MINING_WORKER_COUNT, cpu_count, startup, lib, nreq, hist>>

\* (mutant) results land in the order of the reversed input
CollectSlotReversed(i, n) == n + 1 - i

\* the output cell collect() fills with the result for input position i of n
CollectSlot(i, n) == i

\* (mutant) each worker looks the slot up again
WorkerRomFromSlot(local, slot) == slot

\* the dataset the map closure hashes against: the Arc cloned before the
\* fan-out (local), not the slot as it is when the worker runs
WorkerRom(local, slot) == local

\* one rayon worker finishes the closure for position i, in any order
hash_batch_worker(t, i) ==
    /\ handler[t].pc = "batch_par"
    /\ i \in 1..Len(handler[t].req.preimages)
    /\ handler[t].hashes[CollectSlot(i, Len(handler[t].req.preimages))] = None
    /\ handler' = [handler EXCEPT
                     ![t].hashes[CollectSlot(i, Len(handler[t].req.preimages))] =
                        Some(HashOne(heap, unwrap(WorkerRom(handler[t].rom, ROM)),
                                     handler[t].req.preimages[i]))]
    /\ UNCHANGED <<ROM, heap, readers, writer, poisoned, MINING_WORKER_COUNT, cpu_count, startup, lib,
                   nreq, hist>>
    /\ Delivered

\* collect() is complete: HttpResponse::Ok().json(BatchHashResponse{hashes})
hash_batch_respond(t) ==
    /\ handler[t].pc = "batch_par"
    /\ \A i \in 1..Len(handler[t].hashes) : is_some(handler[t].hashes[i])
    /\ Return(t, BatchHashResponse([i \in 1..Len(handler[t].hashes) |->
                                       unwrap(handler[t].hashes[i])]))
    /\ heap' = DropOption(heap, handler[t].rom)
    /\ UNCHANGED <<ROM, readers, writer, poisoned, MINING_WORKER_COUNT, cpu_count, startup, lib, nreq, hist>>

hash_batch_handler(t) ==
    \/ \E preimages \in BatchRequests : hash_batch_request(t, preimages)
    \/ hash_batch_read(t)
    \/ hash_batch_match(t)
    \/ hash_batch_drop(t)
    \/ hash_batch_check(t)
    \/ \E i \in 1..MaxBatch : hash_batch_worker(t, i)
    \/ hash_batch_respond(t)

\* ------------------------------------------------------------------ POST /hash-batch-shared
\* arr.iter().filter_map(|v| v.as_str().map(String::from)).collect()
RECURSIVE filter_map_as_str(_)
filter_map_as_str(arr) ==
    IF arr = <<>> THEN <<>>
    ELSE (IF is_some(as_str(Head(arr))) THEN <<unwrap(as_str(Head(arr)))>> ELSE <<>>)
            \o filter_map_as_str(Tail(arr))

\* match req.get("preimages"): an array is filtered into the local preimages,
\* anything else returns 400
hash_batch_shared_request(t, v) ==
    /\ nreq < MaxRequests
    /\ nreq' = nreq + 1
    /\ Admissible(t)
    /\ IF is_some(v) /\ unwrap(v).variant = "Array"
         THEN /\ handler' = [handler EXCEPT ![t] =
                              [Idle EXCEPT !.pc = "shared_read", !.req = SharedRequest(v),
                                           !.preimages = filter_map_as_str(unwrap(v).elements)]]
              /\ Delivered
         ELSE /\ done' = [req |-> SharedRequest(v), resp |-> InvalidInput, obs |-> NoObs]
              /\ UNCHANGED handler
    /\ UNCHANGED <<ROM, heap, readers, writer, poisoned, MINING_WORKER_COUNT, cpu_count,
                   startup, lib, hist>>

\* ROM.read().unwrap()
hash_batch_shared_read(t) ==
    /\ handler[t].pc = "shared_read"
    /\ ReadOutcome(writer, poisoned) # "wait"
    /\ IF ReadOutcome(writer, poisoned) = "panic"
         THEN Return(t, Panicked) /\ UNCHANGED readers
         ELSE /\ readers' = readers \cup {t}
              /\ Goto(t, "shared_match")
              /\ Delivered
    /\ UNCHANGED <<ROM, heap, writer, poisoned, MINING_WORKER_COUNT, cpu_count, startup, lib,
                   nreq, hist>>

\* match rom_lock.as_ref(): Some clones the Arc, None returns 503
hash_batch_shared_match(t) ==
    /\ handler[t].pc = "shared_match"
    /\ IF is_some(ROM)
         THEN /\ handler' = [handler EXCEPT ![t].pc = "shared_drop", ![t].rom = ROM,
                                            ![t].obs.arc = ROM]
              /\ heap' = ArcClone(heap, unwrap(ROM))
              /\ Delivered /\ UNCHANGED readers
         ELSE /\ readers' = DropReadGuard(readers, t)
              /\ Return(t, NotReady)
              /\ UNCHANGED heap
    /\ UNCHANGED <<ROM, writer, poisoned, MINING_WORKER_COUNT, cpu_count, startup, lib,
                   nreq, hist>>

\* (mutant) the read guard lives until the handler returns
hash_batch_shared_drop_at_return(t) ==
    /\ handler[t].pc = "shared_drop"
    /\ Goto(t, "shared_check")
    /\ UNCHANGED <<ROM, heap, readers, writer, poisoned, MINING_WORKER_COUNT, cpu_count,
                   startup, lib, nreq, hist>>
    /\ Delivered

\* drop(rom_lock)
hash_batch_shared_drop(t) ==
    /\ handler[t].pc = "shared_drop"
    /\ readers' = DropReadGuard(readers, t)
    /\ Goto(t, "shared_check")
    /\ UNCHANGED <<ROM, heap, writer, poisoned, MINING_WORKER_COUNT, cpu_count, startup, lib,
                   nreq, hist>>
    /\ Delivered

\* if preimages.is_empty() return 400, else start the parallel map
hash_batch_shared_check(t) ==
    /\ handler[t].pc = "shared_check"
    /\ IF handler[t].preimages = <<>>
         THEN /\ Return(t, InvalidInput)
              /\ heap' = DropOption(heap, handler[t].rom)
         ELSE /\ handler' = [handler EXCEPT
                               ![t].pc = "shared_par",
                               ![t].hashes = [i \in 1..Len(handler[t].preimages) |-> None]]
              /\ Delivered /\ UNCHANGED heap
    /\ UNCHANGED <<ROM, readers, writer, poisoned, MINING_WORKER_COUNT, cpu_count, startup,
                   lib, nreq, hist>>

\* one rayon worker finishes the closure for position i, in any order
hash_batch_shared_worker(t, i) ==
    /\ handler[t].pc = "shared_par"
    /\ i \in 1..Len(handler[t].preimages)
    /\ handler[t].hashes[CollectSlot(i, Len(handler[t].preimages))] = None
    /\ handler' = [handler EXCEPT
                     ![t].hashes[CollectSlot(i, Len(handler[t].preimages))] =
                        Some(HashOne(heap, unwrap(WorkerRom(handler[t].rom, ROM)),
                                     handler[t].preimages[i]))]
    /\ UNCHANGED <<ROM, heap, readers, writer, poisoned, MINING_WORKER_COUNT, cpu_count,
                   startup, lib, nreq, hist>>
    /\ Delivered

\* collect() is complete: HttpResponse::Ok().json(BatchHashResponse{hashes})
hash_batch_shared_respond(t) ==
    /\ handler[t].pc = "shared_par"
    /\ \A i \in 1..Len(handler[t].hashes) : is_some(handler[t].hashes[i])
    /\ Return(t, BatchHashResponse([i \in 1..Len(handler[t].hashes) |->
                                       unwrap(handler[t].hashes[i])]))
    /\ heap' = DropOption(heap, handler[t].rom)
    /\ UNCHANGED <<ROM, readers, writer, poisoned, MINING_WORKER_COUNT, cpu_count, startup,
                   lib, nreq, hist>>

hash_batch_shared_handler(t) ==
    \/ \E v \in SharedRequests : hash_batch_shared_request(t, v)
    \/ hash_batch_shared_read(t)
    \/ hash_batch_shared_match(t)
    \/ hash_batch_shared_drop(t)
    \/ hash_batch_shared_check(t)
    \/ \E i \in 1..MaxBatch : hash_batch_shared_worker(t, i)
    \/ hash_batch_shared_respond(t)

\* ------------------------------------------------------------------ GET /health
health_request(t) ==
    /\ nreq < MaxRequests
    /\ nreq' = nreq + 1
    /\ Admit(t, HealthRequest, "health_read")
    /\ UNCHANGED <<ROM, heap, readers, writer, poisoned, MINING_WORKER_COUNT, cpu_count, startup, lib,
                   hist>>
    /\ Delivered

\* ROM.read().unwrap()
health_read(t) ==
    /\ handler[t].pc = "health_read"
    /\ ReadOutcome(writer, poisoned) # "wait"
    /\ IF ReadOutcome(writer, poisoned) = "panic"
         THEN Return(t, Panicked) /\ UNCHANGED readers
         ELSE /\ readers' = readers \cup {t}
              /\ Goto(t, "health_check")
              /\ Delivered
    /\ UNCHANGED <<ROM, heap, writer, poisoned, MINING_WORKER_COUNT, cpu_count, startup, lib, nreq, hist>>

\* let rom_initialized = rom_lock.is_some(); drop(rom_lock)
health_check(t) ==
    /\ handler[t].pc = "health_check"
    /\ handler' = [handler EXCEPT ![t].pc = "health_respond",
                                  ![t].rom_initialized = is_some(ROM)]
    /\ readers' = DropReadGuard(readers, t)
    /\ UNCHANGED <<ROM, heap, writer, poisoned, MINING_WORKER_COUNT, cpu_count, startup, lib, nreq, hist>>
    /\ Delivered

\* HttpResponse::Ok().json(HealthResponse{..})
health_respond(t) ==
    /\ handler[t].pc = "health_respond"
    /\ Return(t, HealthResponse(handler[t].rom_initialized))
    /\ UNCHANGED <<ROM, heap, readers, writer, poisoned, MINING_WORKER_COUNT, cpu_count, startup, lib,
                   nreq, hist>>

health_handler(t) ==
    \/ health_request(t)
    \/ health_read(t)
    \/ health_check(t)
    \/ health_respond(t)

\* ------------------------------------------------------------------ POST /update-mining-workers
\* usize is 64 bits wide: its values are the residues modulo 2^64. An integer
\* n stands for the residue of n, so 0, 1, 2, ... are themselves and -1, -2, ...
\* are usize::MAX = 2^64 - 1, 2^64 - 2, ...; the values that occur lie within
\* 2^31 of zero on one side or the other.
usize_lt(a, b) == IF (a < 0) = (b < 0) THEN a < b ELSE b < 0
\* std::cmp::min on usize
usize_min(a, b) == IF usize_lt(b, a) THEN b ELSE a
\* a + b for a small b: the sum modulo 2^64, and whether it passed usize::MAX
wrapping_add(a, b) == a + b
add_overflows(a, b) == a < 0 /\ a + b >= 0

\* (mutant) the tier boundaries are inclusive on the upper end
recommended_actix_workers_upto(mining_workers, cpus) ==
    IF usize_lt(mining_workers, 21) THEN usize_min(cpus, mining_workers * 2)
    ELSE IF usize_lt(mining_workers, 51)
      THEN usize_min(cpus, MulF64AsUsize(mining_workers, 3, 2, 0))
    ELSE IF usize_lt(mining_workers, 101)
      THEN usize_min(cpus, MulF64AsUsize(mining_workers, 6, 5, 1))
    ELSE usize_min(cpus, wrapping_add(mining_workers, 10))

\* the tiers of the handler, + as the wrapping addition of a build without
\* overflow checks
recommended_actix_workers(mining_workers, cpus) ==
    IF usize_lt(mining_workers, 20) THEN usize_min(cpus, mining_workers * 2)
    ELSE IF usize_lt(mining_workers, 50)
      THEN usize_min(cpus, MulF64AsUsize(mining_workers, 3, 2, 0))
    ELSE IF usize_lt(mining_workers, 100)
      THEN usize_min(cpus, MulF64AsUsize(mining_workers, 6, 5, 1))
    ELSE usize_min(cpus, wrapping_add(mining_workers, 10))

\* whether an addition of the tiers overflows: the top tier's + 10 (2 * c of
\* the first tier is below 40)
recommended_overflows(mining_workers) ==
    ~usize_lt(mining_workers, 100) /\ add_overflows(mining_workers, 10)

\* *count = Some(mining_workers)
StoreMiningWorkerCount(count, mining_workers) == Some(mining_workers)

\* (mutant) the handler applies its recommendation to the running server
update_mining_workers_and_resize(t, c) ==
    /\ Admissible(t)
    /\ nreq < MaxRequests
    /\ nreq' = nreq + 1
    /\ MINING_WORKER_COUNT' = Some(c)
    /\ workers' = Some(recommended_actix_workers(c, cpu_count))
    /\ done' = [req |-> UpdateMiningWorkersRequest(c),
                resp |-> UpdateMiningWorkersResponse(
                            cpu_count, recommended_actix_workers(c, cpu_count)),
                obs |-> NoObs]
    /\ UNCHANGED <<ROM, heap, readers, writer, poisoned, cpu_count, num_threads,
                   used_mining_count, lib, handler, hist>>

\* the whole handler: compute, store under MINING_WORKER_COUNT's own lock,
\* respond. An overflowing addition panics in a build with overflow checks
\* (the handler ends there, before the store) and wraps in one without.
update_mining_workers_handler(t, c) ==
    /\ Admissible(t)
    /\ nreq < MaxRequests
    /\ nreq' = nreq + 1
    /\ \E overflow_checks \in BOOLEAN :
         IF overflow_checks /\ recommended_overflows(c)
           THEN /\ done' = [req |-> UpdateMiningWorkersRequest(c), resp |-> Panicked,
                            obs |-> NoObs]
                /\ UNCHANGED MINING_WORKER_COUNT
           ELSE /\ MINING_WORKER_COUNT' = StoreMiningWorkerCount(MINING_WORKER_COUNT, c)
                /\ done' = [req |-> UpdateMiningWorkersRequest(c),
                            resp |-> UpdateMiningWorkersResponse(
                                        cpu_count, recommended_actix_workers(c, cpu_count)),
                            obs |-> NoObs]
    /\ UNCHANGED <<ROM, heap, readers, writer, poisoned, cpu_count, startup, lib, handler, hist>>

\* ------------------------------------------------------------------ lib.rs
\* The binding's functions, called from the threads of the embedding process.
\* (No call panics while it holds a Mutex, so neither Mutex is ever poisoned
\* and lock().unwrap() either waits or returns the guard.)
LibAdmissible(t) ==
    /\ libhist.calls < MaxCalls
    /\ call[t].pc = "idle"
    /\ \A u \in Threads : u < t => call[u].pc # "idle"

LibCall(t, c) ==
    /\ LibAdmissible(t)
    /\ call' = [call EXCEPT ![t] = [c EXCEPT !.after_ready = libhist.ready_reported]]
    /\ libhist' = [libhist EXCEPT !.calls = @ + 1]
    /\ returned' = NoReturn
    /\ UNCHANGED <<ROM_STATE, ROM_READY, mutex>>

\* a step inside a call, to position next
LibGoto(t, next) ==
    /\ call' = [call EXCEPT ![t].pc = next]
    /\ returned' = NoReturn

\* the call returns; the guards it holds are dropped
LibReturn(t, result) ==
    /\ call' = [call EXCEPT ![t] = NoCall]
    /\ returned' = [op |-> call[t].op, result |-> result,
                    after_ready |-> call[t].after_ready]
    /\ mutex' = [m \in DOMAIN mutex |-> IF mutex[m] = t THEN 0 ELSE mutex[m]]

\* Mutex::lock: waits until the Mutex is free
Lock(t, m) ==
    /\ mutex[m] = 0
    /\ mutex' = [mutex EXCEPT ![m] = t]

Server == <<ROM, heap, readers, writer, poisoned, MINING_WORKER_COUNT, cpu_count,
            handler, nreq, hist, done, startup>>

\* init_rom(no_pre_mine_hex, nb_loops, nb_instrs, pre_size, rom_size, mixing_numbers)
init_rom_call(t, body) ==
    /\ LibCall(t, [NoCall EXCEPT !.pc = "init_rom_new", !.op = "init_rom", !.init = Some(body)])
    /\ UNCHANGED Server

\* (mutant) the old dataset is taken out of ROM_STATE before the new one is built
init_rom_take_then_new(t) ==
    /\ call[t].pc = "init_rom_new"
    /\ LET body == unwrap(call[t].init)
       IN call' = [call EXCEPT
                     ![t].pc = "init_rom_lock_state",
                     ![t].rom = Some(RomNew(body.no_pre_mine, body.pre_size,
                                            body.mixing_numbers, body.rom_size))]
    /\ ROM_STATE' = None
    /\ returned' = NoReturn
    /\ UNCHANGED <<ROM_READY, mutex, libhist, Server>>

\* let rom = Rom::new(..)
init_rom_new(t) ==
    /\ call[t].pc = "init_rom_new"
    /\ LET body == unwrap(call[t].init)
       IN call' = [call EXCEPT
                     ![t].pc = "init_rom_lock_state",
                     ![t].rom = Some(RomNew(body.no_pre_mine, body.pre_size,
                                            body.mixing_numbers, body.rom_size))]
    /\ returned' = NoReturn
    /\ UNCHANGED <<ROM_STATE, ROM_READY, mutex, libhist, Server>>

\* let mut rom_state = ROM_STATE.lock().unwrap()
init_rom_lock_state(t) ==
    /\ call[t].pc = "init_rom_lock_state"
    /\ Lock(t, "ROM_STATE")
    /\ LibGoto(t, "init_rom_store")
    /\ UNCHANGED <<ROM_STATE, ROM_READY, libhist, Server>>

\* *rom_state = Some(rom)
init_rom_store(t) ==
    /\ call[t].pc = "init_rom_store"
    /\ ROM_STATE' = call[t].rom
    /\ call' = [call EXCEPT ![t].pc = "init_rom_lock_ready", ![t].rom = None]
    /\ returned' = NoReturn
    /\ UNCHANGED <<ROM_READY, mutex, libhist, Server>>

\* let mut ready = ROM_READY.lock().unwrap(), with rom_state still held
init_rom_lock_ready(t) ==
    /\ call[t].pc = "init_rom_lock_ready"
    /\ Lock(t, "ROM_READY")
    /\ LibGoto(t, "init_rom_ready")
    /\ UNCHANGED <<ROM_STATE, ROM_READY, libhist, Server>>

\* *ready = true; Ok(()): both guards are dropped
init_rom_ready(t) ==
    /\ call[t].pc = "init_rom_ready"
    /\ ROM_READY' = TRUE
    /\ LibReturn(t, OkUnit)
    /\ UNCHANGED <<ROM_STATE, libhist, Server>>

init_rom(t) ==
    \/ \E body \in InitRequests : init_rom_call(t, body)
    \/ init_rom_new(t)
    \/ init_rom_lock_state(t)
    \/ init_rom_store(t)
    \/ init_rom_lock_ready(t)
    \/ init_rom_ready(t)

\* hash_preimage(preimage)
hash_preimage_call(t, preimage) ==
    /\ LibCall(t, [NoCall EXCEPT !.pc = "hash_preimage_lock_ready", !.op = "hash_preimage",
                                 !.preimage = preimage])
    /\ UNCHANGED Server

\* let ready = ROM_READY.lock().unwrap()
hash_preimage_lock_ready(t) ==
    /\ call[t].pc = "hash_preimage_lock_ready"
    /\ Lock(t, "ROM_READY")
    /\ LibGoto(t, "hash_preimage_check")
    /\ UNCHANGED <<ROM_STATE, ROM_READY, libhist, Server>>

\* if !*ready { return Err(..) }
hash_preimage_check(t) ==
    /\ call[t].pc = "hash_preimage_check"
    /\ IF ROM_READY
         THEN LibGoto(t, "hash_preimage_lock_state") /\ UNCHANGED mutex
         ELSE LibReturn(t, Err("ROM not initialized. Call initRom first."))
    /\ UNCHANGED <<ROM_STATE, ROM_READY, libhist, Server>>

\* let rom_state = ROM_STATE.lock().unwrap(), with ready still held
hash_preimage_lock_state(t) ==
    /\ call[t].pc = "hash_preimage_lock_state"
    /\ Lock(t, "ROM_STATE")
    /\ LibGoto(t, "hash_preimage_hash")
    /\ UNCHANGED <<ROM_STATE, ROM_READY, libhist, Server>>

\* rom_state.as_ref().ok_or_else(..)?; Ok(hex::encode(sh_hash(salt, rom, 8, 256)))
hash_preimage_hash(t) ==
    /\ call[t].pc = "hash_preimage_hash"
    /\ IF is_some(ROM_STATE)
         THEN LibReturn(t, OkHash(hex_encode(sh_hash(call[t].preimage, unwrap(ROM_STATE),
                                                      8, 256))))
         ELSE LibReturn(t, Err("ROM not available"))
    /\ UNCHANGED <<ROM_STATE, ROM_READY, libhist, Server>>

hash_preimage(t) ==
    \/ \E preimage \in Preimages : hash_preimage_call(t, preimage)
    \/ hash_preimage_lock_ready(t)
    \/ hash_preimage_check(t)
    \/ hash_preimage_lock_state(t)
    \/ hash_preimage_hash(t)

\* rom_ready()
rom_ready_call(t) ==
    /\ LibCall(t, [NoCall EXCEPT !.pc = "rom_ready_lock", !.op = "rom_ready"])
    /\ UNCHANGED Server

\* let ready = ROM_READY.lock().unwrap(); *ready: the guard is dropped on return
rom_ready_lock(t) ==
    /\ call[t].pc = "rom_ready_lock"
    /\ mutex.ROM_READY = 0
    /\ LibReturn(t, Bool(ROM_READY))
    /\ libhist' = [libhist EXCEPT !.ready_reported = @ \/ ROM_READY]
    /\ UNCHANGED <<ROM_STATE, ROM_READY, Server>>

rom_ready(t) ==
    \/ rom_ready_call(t)
    \/ rom_ready_lock(t)

\* ------------------------------------------------------------------ specifications
\* The server: every handler on every thread, interleaved step by step.
Next ==
    \E t \in Threads :
        \/ init_handler(t)
        \/ hash_handler(t)
        \/ hash_batch_handler(t)
        \/ health_handler(t)
        \/ \E c \in ServerClients : update_mining_workers_handler(t, c)

Spec == Init /\ [][Next]_vars

\* The server with every route.
NextServer ==
    \E t \in Threads :
        \/ init_handler(t)
        \/ hash_handler(t)
        \/ hash_batch_handler(t)
        \/ hash_batch_shared_handler(t)
        \/ health_handler(t)
        \/ \E c \in ServerClients : update_mining_workers_handler(t, c)

SpecServer == Init /\ [][NextServer]_vars

\* /init and /hash-batch-shared alone.
NextShared ==
    \E t \in Threads :
        \/ init_handler(t)
        \/ hash_batch_shared_handler(t)

SpecShared == Init /\ [][NextShared]_vars

\* The library binding: its three functions called from concurrent threads.
NextLib ==
    \E t \in Threads :
        \/ init_rom(t)
        \/ hash_preimage(t)
        \/ rom_ready(t)

SpecLib == Init /\ [][NextLib]_vars

\* The planner alone: any machine size, any declared client count.
InitPlanner ==
    /\ ROM = None
    /\ heap = <<>>
    /\ readers = {}
    /\ writer = 0
    /\ poisoned = FALSE
    /\ MINING_WORKER_COUNT = None
    /\ cpu_count \in 1..MaxCpu
    /\ handler = [t \in Threads |-> Idle]
    /\ nreq = 0
    /\ hist = [published |-> <<>>, acked |-> 0, inits |-> 0]
    /\ done = NoneDone
    /\ Started([MINING_WORKER_COUNT |-> None, WORKERS |-> None])
    /\ LibInit

NextPlanner == \E c \in 0..MaxClients : update_mining_workers_handler(1, c)

SpecPlanner == InitPlanner /\ [][NextPlanner]_vars

\* The planner at the ends of usize: client counts around the tier boundaries
\* and the MaxTop largest values of usize.
WideClients == {0, 19, 20, 49, 50, 99, 100, 1000000} \cup {-k : k \in 1..MaxTop}

NextWide == \E c \in WideClients : update_mining_workers_handler(1, c)

SpecWide == InitPlanner /\ [][NextWide]_vars

\* The planner across its tiers: the server is started, and started again, with
\* any mining worker count, on machines at and above the CPU counts at which
\* the results of neighbouring tiers meet, and is sent any client count, large
\* ones below and at the overflow of the top tier included.
TierCpus == {30, 31, 128}
TierEnvs == {[MINING_WORKER_COUNT |-> Some(Decimal(n)), WORKERS |-> None] : n \in 0..MaxClients}
TierClients == (0..MaxClients) \cup {1000000, -11, -10, -1}

\* the server process is ended and main runs again, in environment e. (A
\* restart forgets everything the server was sent, so its outcome is the same
\* at any time; it is taken before the first request.)
restart(e) ==
    /\ is_some(workers)
    /\ nreq = 0
    /\ ROM' = None
    /\ heap' = <<>>
    /\ readers' = {}
    /\ writer' = 0
    /\ poisoned' = FALSE
    /\ MINING_WORKER_COUNT' = None
    /\ handler' = [t \in Threads |-> Idle]
    /\ nreq' = 0
    /\ hist' = [published |-> <<>>, acked |-> 0, inits |-> 0]
    /\ done' = NoneDone
    /\ workers' = Some(main_workers(e, cpu_count))
    /\ num_threads' = Some(cpu_count)
    /\ used_mining_count' = main_used_mining_count(e)
    /\ UNCHANGED <<cpu_count, lib>>

InitTiers ==
    /\ ROM = None
    /\ heap = <<>>
    /\ readers = {}
    /\ writer = 0
    /\ poisoned = FALSE
    /\ MINING_WORKER_COUNT = None
    /\ cpu_count \in TierCpus
    /\ handler = [t \in Threads |-> Idle]
    /\ nreq = 0
    /\ hist = [published |-> <<>>, acked |-> 0, inits |-> 0]
    /\ done = NoneDone
    /\ workers = None
    /\ num_threads = None
    /\ used_mining_count = None
    /\ LibInit

\* The client counts are sent to the server started with 60 mining workers:
\* of the start the handler reads cpu_count alone.
NextTiers ==
    \/ \E e \in TierEnvs : main(e)
    \/ \E e \in TierEnvs : restart(e)
    \/ \E c \in TierClients : used_mining_count = Some(60) /\ update_mining_workers_handler(1, c)

SpecTiers == InitTiers /\ [][NextTiers]_vars

\* The process from its start: main in any environment on any machine size,
\* then /update-mining-workers.
InitStartup ==
    /\ ROM = None
    /\ heap = <<>>
    /\ readers = {}
    /\ writer = 0
    /\ poisoned = FALSE
    /\ MINING_WORKER_COUNT = None
    /\ cpu_count \in 1..MaxCpu
    /\ handler = [t \in Threads |-> Idle]
    /\ nreq = 0
    /\ hist = [published |-> <<>>, acked |-> 0, inits |-> 0]
    /\ done = NoneDone
    /\ workers = None
    /\ num_threads = None
    /\ used_mining_count = None
    /\ LibInit

\* the client counts declared to the started server: the count it was started
\* with, or another one
StartupClients ==
    ServerClients \cup (IF is_some(used_mining_count) THEN {unwrap(used_mining_count)} ELSE {})

NextStartup ==
    \/ \E e \in Envs : main(e)
    \/ \E c \in StartupClients : update_mining_workers_handler(1, c)

SpecStartup == InitStartup /\ [][NextStartup]_vars

\* ------------------------------------------------------------------ properties
\* The digest /hash returns for preimage p when the Arc it cloned holds dataset r.
HashOneAgainst(r, p) ==
    [hex |-> [salt |-> p, rom |-> r, nb_loops |-> 8, nb_instrs |-> 256]]

\* The datasets an /init body of InitRequests builds, field by field.
CompleteRoms ==
    { [key |-> b.no_pre_mine, pre_size |-> b.pre_size,
       mixing_numbers |-> b.mixing_numbers, size |-> b.rom_size] : b \in InitRequests }

ReadsSlot(r) == r.op \in {"hash", "hash-batch"}
InitInFlight == \E t \in Threads : handler[t].req.op = "init"
Published == {hist.published[k] : k \in 1..Len(hist.published)}

\* C1: a non-empty /hash-batch that found a snapshot returns 200 with one
\* digest per preimage, and digest i is what /hash returns for preimage i
\* against that snapshot, whatever the order in which the workers finished.
C1_BatchEqualsHashOne ==
    (done.req.op = "hash-batch" /\ done.req.preimages # <<>> /\ is_some(done.obs.arc)) =>
        /\ done.resp.status = 200
        /\ Len(done.resp.hashes) = Len(done.req.preimages)
        /\ \A i \in 1..Len(done.req.preimages) :
              done.resp.hashes[i] =
                 HashOneAgainst(heap[unwrap(done.obs.arc)].rom, done.req.preimages[i])

\* C1 witness: a batch of at least two preimages has returned its digests.
C1_Witness ==
    /\ done.req.op = "hash-batch"
    /\ done.resp.status = 200
    /\ Len(done.req.preimages) >= 2
    /\ Len(done.resp.hashes) = Len(done.req.preimages)

\* C2: every digest of one batch, finished or still being collected, is
\* computed against the dataset of the Arc the batch cloned from the slot,
\* which stays allocated while the batch runs, also when /init stores other
\* snapshots in the slot meanwhile; no two digests of a batch differ in dataset.
C2_OneSnapshotPerBatch ==
    /\ \A t \in Threads :
          handler[t].pc = "batch_par" =>
             /\ handler[t].rom = handler[t].obs.arc
             /\ ~heap[unwrap(handler[t].rom)].freed
             /\ \A i \in 1..Len(handler[t].hashes) :
                   is_some(handler[t].hashes[i]) =>
                      unwrap(handler[t].hashes[i]).hex.rom = heap[unwrap(handler[t].rom)].rom
    /\ (done.req.op = "hash-batch" /\ done.resp.status = 200) =>
          \A i, j \in 1..Len(done.resp.hashes) :
             /\ done.resp.hashes[i].hex.rom = done.resp.hashes[j].hex.rom
             /\ done.resp.hashes[i].hex.rom = heap[unwrap(done.obs.arc)].rom

\* C2 witness: a batch has one digest collected and one still to compute while
\* the slot already holds another snapshot, of another dataset, than the one
\* the batch cloned.
C2_Witness ==
    \E t \in Threads :
        /\ handler[t].pc = "batch_par"
        /\ \E i, j \in 1..Len(handler[t].hashes) :
              is_some(handler[t].hashes[i]) /\ ~is_some(handler[t].hashes[j])
        /\ ROM # handler[t].rom
        /\ heap[unwrap(ROM)].rom # heap[unwrap(handler[t].rom)].rom

\* C3: once a snapshot has been published, /hash and a non-empty /hash-batch
\* return 200 whatever /init is doing meanwhile, and the Arc a request uses is
\* one that was stored in the slot, still allocated while the request holds
\* it, with a completely built dataset.
C3_NoErrorFromRace ==
    /\ \A t \in Threads :
          (ReadsSlot(handler[t].req) /\ is_some(handler[t].rom)) =>
             /\ unwrap(handler[t].rom) \in Published
             /\ ~heap[unwrap(handler[t].rom)].freed
             /\ heap[unwrap(handler[t].rom)].rom \in CompleteRoms
    /\ (ReadsSlot(done.req) /\ done.req.preimages # <<>> /\ Len(hist.published) > 0) =>
          /\ done.resp.status = 200
          /\ unwrap(done.obs.arc) \in Published
          /\ \A i \in 1..Len(done.resp.hashes) : done.resp.hashes[i].hex.rom \in CompleteRoms

\* C3 witness: a request admitted after an /init had returned gets its 200
\* while another /init is between its entry and its response.
C3_Witness ==
    /\ ReadsSlot(done.req)
    /\ done.resp.status = 200
    /\ done.obs.ackAtStart >= 1
    /\ InitInFlight

\* C4: when no /init is in flight and at least one has stored its snapshot,
\* the slot holds the Arc stored last, allocated, with the dataset of exactly
\* one /init body (all four fields of the same body).
C4_SlotHoldsOneCallsSnapshot ==
    (~InitInFlight /\ Len(hist.published) >= 1) =>
        /\ is_some(ROM)
        /\ unwrap(ROM) = hist.published[Len(hist.published)]
        /\ ~heap[unwrap(ROM)].freed
        /\ heap[unwrap(ROM)].strong >= 1
        /\ heap[unwrap(ROM)].rom \in CompleteRoms

\* C4 witness: two /init calls with different bodies overlapped (the dataset
\* built second was stored first) and both have returned.
C4_Witness ==
    /\ ~InitInFlight
    /\ Len(hist.published) >= 2
    /\ hist.published[1] > hist.published[2]
    /\ heap[hist.published[1]].rom # heap[hist.published[2]].rom

\* C5: an /init returns only after its snapshot was stored, and a /hash or
\* /hash-batch admitted after an /init returned uses the snapshot that /init
\* stored or one stored later, never an earlier one, and never gets 503.
C5_NoStaleAfterAck ==
    /\ hist.acked <= Len(hist.published)
    /\ \A t \in Threads :
          (ReadsSlot(handler[t].req) /\ is_some(handler[t].rom)) =>
             PubPos(unwrap(handler[t].rom)) >= handler[t].obs.ackAtStart
    /\ (ReadsSlot(done.req) /\ done.obs.ackAtStart >= 1) =>
          /\ done.resp.status # 503
          /\ is_some(done.obs.arc)
          /\ PubPos(unwrap(done.obs.arc)) >= done.obs.ackAtStart

\* C5 witness: a request admitted after the second /init had returned got its
\* digests from a snapshot stored second or later.
C5_Witness ==
    /\ ReadsSlot(done.req)
    /\ done.resp.status = 200
    /\ done.obs.ackAtStart >= 2
    /\ PubPos(unwrap(done.obs.arc)) >= 2

\* C6: the slot never goes from holding a snapshot back to empty and is empty
\* exactly while nothing has been published; the flag /health reads is
\* whether a publish has happened by then, and /health answers 200 with that
\* flag, so it is false before the first publish and true from then on, also
\* while a later /init is running.
C6_ReadinessMonotonic ==
    [][ /\ is_some(ROM) => is_some(ROM')
        /\ is_some(ROM') = (Len(hist'.published) > 0)
        /\ \A t \in Threads :
              /\ (handler[t].pc = "health_check" /\ handler'[t].pc = "health_respond") =>
                    handler'[t].rom_initialized = (Len(hist.published) > 0)
              /\ (handler[t].req.op = "health" /\ handler'[t].pc = "idle"
                                               /\ handler[t].pc # "idle") =>
                    /\ done'.resp.status = 200
                    /\ done'.resp.kind = "health"
                    /\ done'.resp.flag = handler[t].rom_initialized
      ]_vars

\* C6 witness: /health answers ready while the second /init is between its
\* entry and its store.
C6_Witness ==
    /\ done.req.op = "health"
    /\ done.resp.flag
    /\ hist.inits >= 2
    /\ \E t \in Threads : handler[t].pc \in {"init_read", "init_check", "init_build", "init_write"}

\* C7: while nothing has been published the slot is empty, no /hash or
\* /hash-batch holds an Arc or has computed a digest, and /hash and a
\* non-empty /hash-batch return 503 "ROM not initialized" without digests.
C7_NotReadyWhenUninitialized ==
    Len(hist.published) = 0 =>
        /\ ROM = <<>>
        /\ \A t \in Threads :
              ReadsSlot(handler[t].req) => (handler[t].rom = <<>> /\ handler[t].hashes = <<>>)
        /\ (ReadsSlot(done.req) /\ done.req.preimages # <<>>) =>
              /\ done.resp.status = 503
              /\ done.resp.kind = "ROM not initialized. Call /init first."
              /\ done.resp.hashes = <<>>
              /\ done.obs.arc = <<>>

\* C7 witness: a non-empty /hash-batch has been refused before any publish.
C7_Witness ==
    /\ Len(hist.published) = 0
    /\ done.req.op = "hash-batch"
    /\ done.req.preimages # <<>>
    /\ done.resp.status = 503

\* C8 (the claim as stated): /hash-batch with an empty preimages array is
\* answered 400 "preimages array is required", whether or not a snapshot has
\* been published.
C8_EmptyBatchIsInvalidInput ==
    (done.req.op = "hash-batch" /\ done.req.preimages = <<>>) =>
        (done.resp.status = 400 /\ done.resp.kind = "preimages array is required")

\* C9: an /init whose construction fails has changed neither the slot, nor
\* the Arcs, nor the write guard, nor the poison flag in any of its steps, and
\* when it fails it holds no guard: a published snapshot stays in the slot and
\* the lock is as it would be without that /init.
C9_FailedInitChangesNothing ==
    [][ \A t \in Threads :
          /\ (handler'[t] # handler[t]
                /\ handler'[t].pc \in {"init_read", "init_check", "init_build"}) =>
                (ROM' = ROM /\ heap' = heap /\ writer' = writer /\ poisoned' = poisoned)
          /\ (handler[t].pc = "init_build" /\ handler'[t].pc = "idle") =>
                /\ ROM' = ROM /\ heap' = heap /\ writer' = writer
                /\ ~poisoned'
                /\ writer' # t
                /\ t \notin readers'
                /\ done'.resp.status = 500
      ]_vars

\* C9 witness: an /init has failed in construction while the slot holds the
\* snapshot of an earlier /init.
C9_Witness ==
    /\ done.req.op = "init"
    /\ done.resp.status = 500
    /\ is_some(ROM)
    /\ ~heap[unwrap(ROM)].freed

\* raw of the tiered formula, by declared client count
PlannerRaw(c) ==
    IF c < 20 THEN 2 * c
    ELSE IF c < 50 THEN (3 * c) \div 2
    ELSE IF c < 100 THEN (6 * c) \div 5
    ELSE c + 10

\* C10 (the claim as stated): the recommendation /update-mining-workers
\* returns is min(p, max(raw, 4)) for client count c and p CPUs.
C10_RecommendationFormula ==
    done.req.op = "update-mining-workers" =>
        done.resp.b = min(cpu_count, max(PlannerRaw(done.req.mining_worker_count), 4))

\* C11 (the claim as stated): the current_actix_workers of every
\* /update-mining-workers response is the count main handed to
\* HttpServer::workers, whatever the environment main started in.
C11_CurrentIsStartupWorkers ==
    done.req.op = "update-mining-workers" => done.resp.a = unwrap(workers)

\* C16 (the claim as stated): when the declared client count is the mining
\* worker count main was started with, the handler recommends the worker count
\* main computed.
C16_HandlerEqualsStartup ==
    (done.req.op = "update-mining-workers"
        /\ used_mining_count = Some(done.req.mining_worker_count)) =>
        done.resp.b = unwrap(workers)

\* C17 (the claim as stated): for every client count of a usize, the largest
\* ones included, /update-mining-workers answers 200 and the recommendation is
\* min(p, raw) of the raw value computed without wrapping, which for the
\* largest counts is above any CPU count; it lies between 0 and p.
C17_TotalWithoutOverflow ==
    done.req.op = "update-mining-workers" =>
        /\ done.resp.status = 200
        /\ done.resp.b >= 0 /\ done.resp.b <= cpu_count
        /\ done.resp.b = IF done.req.mining_worker_count < 0
                           THEN cpu_count
                           ELSE min(cpu_count, PlannerRaw(done.req.mining_worker_count))

\* The response a handler at position pc returns with, from its request, its
\* locals and the snapshot it holds alone.
ResponseOf(h, hp) ==
    LET plain == [status |-> 200, kind |-> "", hashes |-> <<>>, flag |-> FALSE, a |-> 0, b |-> 0]
    IN CASE h.pc = "hash_compute" ->
              [plain EXCEPT !.kind = "hash",
                            !.hashes = <<HashOneAgainst(hp[h.rom[1]].rom, h.req.preimages[1])>>]
         [] h.pc \in {"hash_match", "batch_match"} ->
              [plain EXCEPT !.status = 503, !.kind = "ROM not initialized. Call /init first."]
         [] h.pc = "batch_check" ->
              [plain EXCEPT !.status = 400, !.kind = "preimages array is required"]
         [] h.pc = "batch_par" ->
              [plain EXCEPT !.kind = "hashes",
                            !.hashes = [i \in 1..Len(h.hashes) |-> h.hashes[i][1]]]
         [] h.pc = "health_respond" ->
              [plain EXCEPT !.kind = "health", !.flag = h.rom_initialized]
         [] h.pc = "init_respond" -> [plain EXCEPT !.kind = "initialized"]
         [] OTHER -> [plain EXCEPT !.status = 500, !.kind = "panic"]

\* C12: a step of /update-mining-workers leaves MINING_WORKER_COUNT at the
\* declared value and changes neither the slot, nor the Arcs and their
\* datasets, nor the lock, nor any running handler, nor the rayon pool size,
\* nor the server's worker count; no other step changes MINING_WORKER_COUNT;
\* and what /init, /hash, /hash-batch and /health return is determined by the
\* request, the handler's locals and the snapshot it holds, whatever was
\* declared before.
C12_UpdateChangesOnlySignal ==
    [][ /\ done'.req.op = "update-mining-workers" =>
              /\ MINING_WORKER_COUNT' = <<done'.req.mining_worker_count>>
              /\ ROM' = ROM /\ heap' = heap /\ hist' = hist
              /\ readers' = readers /\ writer' = writer /\ poisoned' = poisoned
              /\ handler' = handler
              /\ num_threads' = num_threads /\ workers' = workers
              /\ cpu_count' = cpu_count
        /\ done'.req.op # "update-mining-workers" =>
              MINING_WORKER_COUNT' = MINING_WORKER_COUNT
        /\ \A t \in Threads :
              (handler[t].pc # "idle" /\ handler'[t].pc = "idle") =>
                 /\ done'.req = handler[t].req
                 /\ done'.resp = ResponseOf(handler[t], heap)
      ]_vars

\* C12 witness: /update-mining-workers has returned while a batch that holds
\* a snapshot is being computed.
C12_Witness ==
    /\ done.req.op = "update-mining-workers"
    /\ MINING_WORKER_COUNT = <<done.req.mining_worker_count>>
    /\ is_some(ROM)
    /\ \E t \in Threads : handler[t].pc = "batch_par" /\ is_some(handler[t].rom)

\* The references to Arc i: the slot, and the local rom of every handler.
Holders(i) ==
    (IF ROM = <<i>> THEN 1 ELSE 0)
      + Cardinality({t \in Threads : handler[t].rom = <<i>>})

\* C13: the strong count of every Arc is the number of references to it (the
\* slot and the handlers in flight) and its dataset is released exactly when
\* that number is zero: never while the slot or a running /hash or
\* /hash-batch refers to it, and at once when a replaced snapshot loses its
\* last reader. No digest, collected or returned, was computed from a
\* released dataset, however many snapshots were published meanwhile.
C13_ReleasedOnlyWhenUnreferenced ==
    /\ \A i \in 1..Len(heap) :
          /\ heap[i].strong = Holders(i)
          /\ heap[i].freed = (Holders(i) = 0)
    /\ \A t \in Threads :
          \A k \in 1..Len(handler[t].hashes) :
             handler[t].hashes[k] # <<>> => handler[t].hashes[k][1].hex.rom.key # "freed"
    /\ \A k \in 1..Len(done.resp.hashes) : done.resp.hashes[k].hex.rom.key # "freed"

\* C13 witness: a batch that cloned a snapshot which was then replaced in the
\* slot has returned its digests, computed from that snapshot's dataset, and
\* with its return the replaced snapshot, which has no reader left, is released.
C13_Witness ==
    /\ done.req.op = "hash-batch"
    /\ done.resp.status = 200
    /\ Len(done.resp.hashes) >= 2
    /\ done.obs.arc # ROM
    /\ heap[done.obs.arc[1]].freed
    /\ \A k \in 1..Len(done.resp.hashes) :
          done.resp.hashes[k].hex.rom = heap[done.obs.arc[1]].rom

\* C18 (the claim as stated): a 200 of /hash-batch-shared carries one digest
\* per element of the request's preimages array, digest i being that of
\* element i.
C18_SharedOneDigestPerElement ==
    (done.req.op = "hash-batch-shared" /\ done.resp.status = 200) =>
        /\ Len(done.resp.hashes) = Len(done.req.json[1].elements)
        /\ \A i \in 1..Len(done.resp.hashes) :
              done.resp.hashes[i].hex.salt = done.req.json[1].elements[i].text

\* The positions at which a handler computes digests, or holds the Arc it
\* will compute them from with nothing left to do under the lock.
Computing(pc) ==
    pc \in {"hash_compute", "batch_check", "batch_par", "shared_check", "shared_par"}

\* C14: a thread holds a read guard only in the step between taking it and
\* inspecting the slot or, having cloned the Arc, dropping it; no handler
\* that computes digests, and none that has returned (503 included), holds
\* one. Hence the write guard of a publish is available whenever the other
\* threads are computing or idle.
C14_NoReadGuardWhileComputing ==
    /\ \A t \in Threads :
          /\ t \in readers =>
                handler[t].pc \in {"init_check", "hash_match", "hash_drop", "batch_match",
                                   "batch_drop", "shared_match", "shared_drop", "health_check"}
          /\ (Computing(handler[t].pc) \/ handler[t].pc \in {"idle", "health_respond"}) =>
                t \notin readers
    /\ \A t \in Threads :
          (handler[t].pc = "init_write"
             /\ \A u \in Threads \ {t} : Computing(handler[u].pc) \/ handler[u].pc = "idle") =>
             (writer = 0 /\ readers = {})

\* C14 witness: an /init is about to take the write guard, which is free,
\* while a shared batch on the other thread is computing a digest.
C14_Witness ==
    \E t, u \in Threads :
        /\ handler[t].pc = "init_write"
        /\ handler[u].pc = "shared_par"
        /\ \E k \in 1..Len(handler[u].hashes) : handler[u].hashes[k] = <<>>
        /\ writer = 0 /\ readers = {}

\* C15: while Rom::new runs, the /init that called it holds neither guard of
\* the slot: the read guard of its check is gone and the write guard not yet
\* taken. A thread holds the write guard only in the steps that store into
\* the slot and drop the guard. Hence a reader that arrives while datasets
\* are under construction, and no store is in progress, does not wait.
C15_NoGuardWhileConstructing ==
    /\ \A t \in Threads :
          /\ handler[t].pc \in {"init_build", "init_write"} =>
                (t \notin readers /\ writer # t)
          /\ writer = t => handler[t].pc \in {"init_store", "init_unlock"}
    /\ ((\E t \in Threads : handler[t].pc = "init_build")
          /\ \A t \in Threads : handler[t].pc \notin {"init_store", "init_unlock"}) =>
          (writer = 0 /\ ReadOutcome(writer, poisoned) = "guard")

\* C15 witness: while one thread constructs a dataset, a /hash or /health on
\* the other has taken the read guard.
C15_Witness ==
    \E t, u \in Threads :
        /\ handler[t].pc = "init_build"
        /\ handler[u].req.op \in {"hash", "health"}
        /\ u \in readers

\* The Mutex a call is waiting for at its position, "" if none.
WaitsFor(c) ==
    IF c.pc \in {"init_rom_lock_state", "hash_preimage_lock_state"} THEN "ROM_STATE"
    ELSE IF c.pc \in {"init_rom_lock_ready", "hash_preimage_lock_ready", "rom_ready_lock"}
      THEN "ROM_READY"
    ELSE ""
LibBlocked(t) == WaitsFor(call[t]) # "" /\ mutex[WaitsFor(call[t])] # 0

\* C19 (the claim as stated): concurrent library calls never deadlock: while
\* calls are running, one of them can take its next step, so no set of calls
\* waits for Mutexes that only its own members hold.
C19_LibNeverDeadlocks ==
    (\E t \in Threads : call[t].pc # "idle") =>
        \E t \in Threads : call[t].pc # "idle" /\ ~LibBlocked(t)

\* C20: ROM_READY is true only when ROM_STATE holds a dataset, also between
\* the two writes of an init_rom and with init_rom calls overlapping; no
\* hash_preimage has returned 'ROM not available'; and a hash_preimage called
\* after rom_ready() had returned true returns Ok with a digest against a
\* dataset some init_rom built.
C20_ReadyImpliesDataset ==
    /\ ROM_READY => ROM_STATE # <<>>
    /\ ROM_STATE # <<>> => ROM_STATE[1] \in CompleteRoms
    /\ returned.result.reason # "ROM not available"
    /\ (returned.op = "hash_preimage" /\ returned.after_ready) =>
          /\ returned.result.ok
          /\ returned.result.hash # <<>>
          /\ returned.result.hash[1].hex.rom \in CompleteRoms

\* C20 witness: a hash_preimage called after rom_ready() had returned true has
\* returned its digest while a second init_rom is running on the other thread.
C20_Witness ==
    /\ returned.op = "hash_preimage"
    /\ returned.after_ready
    /\ returned.result.ok
    /\ \E t \in Threads : call[t].op = "init_rom"

\* The tier of a client count.
Tier(c) ==
    IF usize_lt(c, 20) THEN 1 ELSE IF usize_lt(c, 50) THEN 2 ELSE IF usize_lt(c, 100) THEN 3 ELSE 4

====
